---- MODULE Spec2Model ----
\* Model of the autopim loop pass (src/autopim.cpp): expression extraction,
\* the area cost model, the independence / vector-loop / interchange
\* predicates, the erase check and the per-loop driver runOnLoop.
EXTENDS Integers, Sequences, FiniteSets, TLC

VARIABLES
    decls,                  \* which runtime declarations the module has
    pc,                     \* position inside runOnLoop
    loop,                   \* the loop runOnLoop was invoked on
    pattern,                \* AccessPattern of the current visit
    i,                      \* runOnLoop's sub-loop counter i
    idx,                    \* cursor of the rewrite loop / insertLoopPIMCalls
    sub_loops,              \* the file-level std::map sub_loops
    calls,                  \* the calls inserted so far, in insertion order
    succ,                   \* successors of each loop header's branch
    ret,                    \* runOnLoop's return value
    report,                 \* what each examined loop's checks returned, in scan order
    loop_was_interchanged,  \* PIMGenerator::loop_was_interchanged
    fn                      \* harness record for the pure functions

vars == <<decls, pc, loop, pattern, i, idx, sub_loops, calls, succ, ret,
          report, loop_was_interchanged, fn>>

-----------------------------------------------------------------------------
\* Bounds of the model.

\* operator instructions in a value DAG handed to extractComputation
MaxOps == 2

\* operator nodes in a tree handed to computeCost
MaxAstOps == 2

\* child loops of an outer loop
MaxSub == 2

\* levels of the deepest value DAG with shared operands handed to
\* extractComputation and, as a tree, to computeCost
MaxDepth == 16

\* loops the pass manager hands to runOnLoop in one run of the pass
MaxVisits == 2

-----------------------------------------------------------------------------
\* IR values. A Value* is modelled by the record of what it points to; the
\* null pointer is the record NullValue.

NullValue == [kind |-> "nullptr"]

Const(n) == [kind |-> "Constant", n |-> n]

Arg(name) == [kind |-> "Argument", name |-> name]

Inst(op, ops) == [kind |-> "Instruction", op |-> op, ops |-> ops]

\* the header phi of a loop; ops[1] is getIncomingValue(0)
Phi(name, start) == [kind |-> "Instruction", op |-> "PHI", name |-> name, ops |-> <<start>>]

\* getelementptr base, ..., index; inloop tells whether the instruction sits
\* in a block of the loop that uses it or was defined before the loop
GEP(index, inloop) ==
    [kind |-> "Instruction", op |-> "GetElementPtr", ops |-> <<Arg("base"), index>>,
     inloop |-> inloop]

Load(addr) == Inst("Load", <<addr>>)

Store(val, addr) == Inst("Store", <<val, addr>>)

\* the index values of the modelled programs: the outer loop's induction
\* phi, the sub-loop's induction phi, and a value that is neither
I == Phi("i", Const(0))

J == Phi("j", Const(0))

K == Arg("k")

IsInstruction(v) == v.kind = "Instruction"

IsGEP(v) == v.kind = "Instruction" /\ v.op = "GetElementPtr"

IsStore(v) == v.kind = "Instruction" /\ v.op = "Store"

IsLoad(v) == v.kind = "Instruction" /\ v.op = "Load"

getIndexVariable(gep) == gep.ops[Len(gep.ops)]

-----------------------------------------------------------------------------
\* ExtractAST and extractComputation.

NullAST == [ast_type |-> "nullptr"]

\* outcome of an execution that dereferenced a null pointer and stopped
Fault == [ast_type |-> "fault"]

ExtractAST(type, value) ==
    [ast_type |-> type, value |-> value, left |-> NullAST, right |-> NullAST]

ExtractOps ==
    {"Add", "Sub", "SDiv", "UDiv", "Mul", "And", "Or", "Xor", "LShr", "AShr", "Shl", "ICmp"}

\* extractComputation without the cases for ZExt and SExt
RECURSIVE extractComputation_NoExt(_, _)
extractComputation_NoExt(value, pattern_) ==
    IF value.kind = "Constant" THEN {ExtractAST("AST_TYPE_CONSTANT", value)}
    ELSE IF value.kind = "Instruction" THEN
        IF value.op \in ExtractOps THEN
            LET ls == extractComputation_NoExt(value.ops[1], pattern_)
                rs == extractComputation_NoExt(value.ops[2], pattern_)
            IN  { IF l = Fault \/ r = Fault THEN Fault
                  ELSE [ExtractAST("AST_TYPE_OP", value) EXCEPT !.left = l, !.right = r]
                  : l \in ls, r \in rs }
        ELSE IF value.op = "Load" THEN
            LET gep == value.ops[1] IN
            IF ~IsGEP(gep) THEN {Fault, NullAST, ExtractAST("AST_TYPE_ARRAY", value)}
            ELSE IF getIndexVariable(gep) = pattern_.first_idx
                    \/ getIndexVariable(gep) = pattern_.second_idx
                 THEN {ExtractAST("AST_TYPE_ARRAY", value)}
                 ELSE {NullAST}
        ELSE {NullAST}
    ELSE {NullAST}

\* The set of results extractComputation can produce. It is a singleton
\* except where the code calls getIndexVariable on the null result of
\* dyn_cast<GetElementPtrInst>: that dereference is undefined, and the build
\* may stop there or take either arm of the comparison.
RECURSIVE extractComputation(_, _)
extractComputation(value, pattern_) ==
    IF value.kind = "Constant" THEN {ExtractAST("AST_TYPE_CONSTANT", value)}
    ELSE IF value.kind = "Instruction" THEN
        IF value.op \in ExtractOps THEN
            LET ls == extractComputation(value.ops[1], pattern_)
                rs == extractComputation(value.ops[2], pattern_)
            IN  { IF l = Fault \/ r = Fault THEN Fault
                  ELSE [ExtractAST("AST_TYPE_OP", value) EXCEPT !.left = l, !.right = r]
                  : l \in ls, r \in rs }
        ELSE IF value.op \in {"ZExt", "SExt"} THEN
            extractComputation(value.ops[1], pattern_)
        ELSE IF value.op = "Load" THEN
            LET gep == value.ops[1] IN
            IF ~IsGEP(gep) THEN {Fault, NullAST, ExtractAST("AST_TYPE_ARRAY", value)}
            ELSE IF getIndexVariable(gep) = pattern_.first_idx
                    \/ getIndexVariable(gep) = pattern_.second_idx
                 THEN {ExtractAST("AST_TYPE_ARRAY", value)}
                 ELSE {NullAST}
        ELSE {NullAST}
    ELSE {NullAST}

-----------------------------------------------------------------------------
\* CostModel.

cost_add == 1187

cost_sub == 1187

cost_mul == 16066

cost_div == 61252

cost_shift == 0

cost_and == 50

cost_or == 50

cost_xor == 99

cost_load == 0

cost_cmp == 173

cost_constant == 0

\* An unsigned int is modelled by the 32-bit two's-complement integer with
\* the same bits: 0 .. IntMax stand for themselves, a negative n stands for
\* n + 2^32. Conversions between int and unsigned int keep the bits.
IntMax == (2 ^ 30 - 1) + 2 ^ 30

IntMin == (-IntMax) - 1

\* a + b in unsigned int (wraps modulo 2^32)
AddU(a, b) ==
    IF a >= 0 /\ b >= 0 /\ a > IntMax - b THEN ((a - IntMax) + (b - IntMax)) - 2
    ELSE IF a < 0 /\ b < 0 /\ a < IntMin - b THEN ((a + IntMax) + (b + IntMax)) + 2
    ELSE a + b

\* computeCost that leaves out the right child of an operator node
RECURSIVE computeCost_LeftOnly(_)
computeCost_LeftOnly(ast) ==
    IF ast = NullAST THEN 0
    ELSE IF ast.ast_type = "AST_TYPE_OP" THEN
        LET cost_op0 == IF ast.left # NullAST THEN computeCost_LeftOnly(ast.left) ELSE 0
            op == ast.value.op
        IN  CASE op \in {"Add", "Sub"} -> AddU(cost_op0, cost_add)
              [] op \in {"SDiv", "UDiv"} -> AddU(cost_op0, cost_div)
              [] op = "Mul" -> AddU(cost_op0, cost_mul)
              [] op \in {"And", "Or"} -> AddU(cost_op0, cost_and)
              [] op = "Xor" -> AddU(cost_op0, cost_xor)
              [] op = "ICmp" -> AddU(cost_op0, cost_cmp)
              [] OTHER -> cost_op0
    ELSE 0

RECURSIVE computeCost(_)
computeCost(ast) ==
    IF ast = NullAST THEN 0
    ELSE IF ast.ast_type = "AST_TYPE_CONSTANT" THEN cost_constant
    ELSE IF ast.ast_type = "AST_TYPE_ARRAY" THEN cost_load
    ELSE IF ast.ast_type = "AST_TYPE_OP" THEN
        LET cost_op0 == IF ast.left # NullAST THEN computeCost(ast.left) ELSE 0
            cost_op1 == IF ast.right # NullAST THEN computeCost(ast.right) ELSE 0
            op == ast.value.op
        IN  CASE op = "Add" -> AddU(AddU(cost_op0, cost_op1), cost_add)
              [] op = "Sub" -> AddU(AddU(cost_op0, cost_op1), cost_sub)
              [] op \in {"SDiv", "UDiv"} -> AddU(AddU(cost_op0, cost_op1), cost_div)
              [] op = "Mul" -> AddU(AddU(cost_op0, cost_op1), cost_mul)
              [] op = "And" -> AddU(AddU(cost_op0, cost_op1), cost_and)
              [] op = "Or" -> AddU(AddU(cost_op0, cost_op1), cost_or)
              [] op = "Xor" -> AddU(AddU(cost_op0, cost_op1), cost_xor)
              [] op \in {"LShr", "AShr", "Shl"} -> AddU(AddU(cost_op0, cost_op1), cost_shift)
              [] op = "ICmp" -> AddU(AddU(cost_op0, cost_op1), cost_cmp)
              [] OTHER -> AddU(AddU(cost_op0, cost_op1), 0)
    ELSE 0

-----------------------------------------------------------------------------
\* Loops. A loop is kept as a record
\*   depth    getLoopDepth()
\*   iv       getCanonicalInductionVariable() (NullValue when there is none)
\*   hdr      name of the header block's instruction list (HeaderNamed)
\*   stmts    the stores of the body block, each by the names of its stored
\*            value and its address (ValueNamed, AddrNamed)
\*   exit     whether getExitBlock() is non-null
\*   edgeDom  the dominator tree's answer for the edge header -> body and
\*            a use located in body
\*   escapes  whether a value defined in the loop is used after the loop
\*            other than through the memory written by its stores
\*   subs     the child loops
\* block_begin()..block_end() visits the header block, then the body block.

AJ == GEP(J, TRUE)

AI == GEP(I, TRUE)

\* &A[i][j]
AIJ == [GEP(J, TRUE) EXCEPT !.ops = <<Arg("A"), I, J>>]

AKin == GEP(K, TRUE)

AKout == GEP(K, FALSE)

RawPtr == Arg("p")

AddrNamed(a) ==
    CASE a = "AJ" -> AJ
      [] a = "AI" -> AI
      [] a = "AKin" -> AKin
      [] a = "AKout" -> AKout
      [] a = "RawPtr" -> RawPtr

ValueNamed(v) ==
    CASE v = "VAdd" -> Inst("Add", <<Load(AJ), Load(AIJ)>>)       \* out[j] + A[i][j]
      [] v = "VCmp" ->                                            \* out[j] > 100
            Inst("ZExt", <<Inst("ICmp", <<Load(AJ), Const(100)>>)>>)
      [] v = "VConst" -> Const(7)
      [] v = "VArg" -> Arg("x")
      [] v = "VPart" -> Inst("Add", <<Load(AJ), Arg("x")>>)
      [] v = "VFAdd" -> Inst("FAdd", <<Load(AJ), Const(1)>>)
      [] v = "VLoadK" -> Load(AKout)
      [] v = "VRaw" -> Load(RawPtr)
      [] v = "VRow" -> Inst("Mul", <<Load(AI), Const(2)>>)

\* the instructions of the loop body that compute v, operands first
RECURSIVE InstrsOf(_)
InstrsOf(v) ==
    IF ~IsInstruction(v) THEN <<>>
    ELSE IF v.op = "PHI" THEN <<>>
    ELSE IF IsGEP(v) THEN (IF v.inloop THEN <<v>> ELSE <<>>)
    ELSE InstrsOf(v.ops[1])
         \o (IF Len(v.ops) > 1 THEN InstrsOf(v.ops[2]) ELSE <<>>)
         \o <<v>>

RECURSIVE BodyOf(_)
BodyOf(stmts) ==
    IF stmts = <<>> THEN <<Inst("Br", <<Arg("header")>>)>>
    ELSE InstrsOf(Store(ValueNamed(Head(stmts)[1]), AddrNamed(Head(stmts)[2])))
         \o BodyOf(Tail(stmts))

\* for (phi = start; phi < bound; phi++)
HeaderOf(phi, bound) ==
    <<phi, Inst("ICmp", <<phi, bound>>),
      Inst("Br", <<Arg("cond"), Arg("body"), Arg("exit")>>)>>

\* "i64", "j32": the loops of the filter kernel
\* "acc5", "accm4", "accx": the header merges another value (start 5, -4,
\*     a function argument) above the induction phi
\* "x3": for (j = 0; (x > 3) & (j < 32); j++), both compares in the header
\* "jn": for (j = 0; j < n; j++)
\* "jm3": for (j = 0; j < -3; j++)
\* "nocmp": the header's branch condition is no icmp instruction
\* "uncond": the header branches to the body unconditionally, the exit
\*     test sits at the end of the body
HeaderNamed(h) ==
    CASE h = "i64" -> HeaderOf(I, Const(64))
      [] h = "j32" -> HeaderOf(J, Const(32))
      [] h = "acc5" -> <<Phi("acc", Const(5))>> \o HeaderOf(J, Const(32))
      [] h = "accm4" -> <<Phi("acc", Const(-4))>> \o HeaderOf(J, Const(32))
      [] h = "accx" -> <<Phi("acc", Arg("x"))>> \o HeaderOf(J, Const(32))
      [] h = "x3" -> <<J, Inst("ICmp", <<Arg("x"), Const(3)>>),
                       Inst("ICmp", <<J, Const(32)>>), Inst("And", <<Arg("c0"), Arg("c1")>>),
                       Inst("Br", <<Arg("cond"), Arg("body"), Arg("exit")>>)>>
      [] h = "jn" -> HeaderOf(J, Arg("n"))
      [] h = "jm3" -> HeaderOf(J, Const(-3))
      [] h = "nocmp" -> <<J, Inst("Br", <<Arg("cond"), Arg("body"), Arg("exit")>>)>>
      [] h = "uncond" -> <<J, Inst("Br", <<Arg("body")>>)>>

Header(l) == HeaderNamed(l.hdr)

Body(l) ==
    IF l.hdr = "uncond"
    THEN SubSeq(BodyOf(l.stmts), 1, Len(BodyOf(l.stmts)) - 1)
         \o <<Inst("ICmp", <<J, Const(32)>>),
              Inst("Br", <<Arg("cond"), Arg("header"), Arg("exit")>>)>>
    ELSE BodyOf(l.stmts)

Blocks(l) == <<Header(l), Body(l)>>

Instrs(l) == Header(l) \o Body(l)

getCanonicalInductionVariable(l) == l.iv

\* IndependentFrom without the check of a store's address
RECURSIVE IndependentFrom_NoStoreCheck(_, _, _, _)
IndependentFrom_NoStoreCheck(instrs, n, induction_variable, pattern_) ==
    IF n > Len(instrs) THEN TRUE
    ELSE LET instruction == instrs[n] IN
        IF IsGEP(instruction) THEN
            LET index_variable == getIndexVariable(instruction) IN
            IF index_variable = induction_variable \/ index_variable = pattern_.first_idx
            THEN IndependentFrom_NoStoreCheck(instrs, n + 1, induction_variable, pattern_)
            ELSE FALSE
        ELSE IndependentFrom_NoStoreCheck(instrs, n + 1, induction_variable, pattern_)

\* the scan of one block's instruction list from position n on
RECURSIVE IndependentFrom(_, _, _, _)
IndependentFrom(instrs, n, induction_variable, pattern_) ==
    IF n > Len(instrs) THEN TRUE
    ELSE LET instruction == instrs[n] IN
        IF IsGEP(instruction) THEN
            LET index_variable == getIndexVariable(instruction) IN
            IF index_variable = induction_variable \/ index_variable = pattern_.first_idx
            THEN IndependentFrom(instrs, n + 1, induction_variable, pattern_)
            ELSE FALSE
        ELSE IF IsStore(instruction) THEN
            LET store_address == instruction.ops[2] IN
            IF IsGEP(store_address)
            THEN IndependentFrom(instrs, n + 1, induction_variable, pattern_)
            ELSE FALSE
        ELSE IndependentFrom(instrs, n + 1, induction_variable, pattern_)

isLoopIterationIndependent(sub_loop, pattern_) ==
    IF Len(Blocks(sub_loop)) = 0 THEN TRUE
    ELSE IF getCanonicalInductionVariable(sub_loop) = NullValue THEN FALSE
    ELSE IndependentFrom(Instrs(sub_loop), 1,
                         getCanonicalInductionVariable(sub_loop), pattern_)

\* position of the first store at or after n, 0 when there is none
RECURSIVE FirstStoreFrom(_, _)
FirstStoreFrom(instrs, n) ==
    IF n > Len(instrs) THEN 0
    ELSE IF IsStore(instrs[n]) THEN n
    ELSE FirstStoreFrom(instrs, n + 1)

\* subLoopIsVectorLoop: the verdict, the pattern as the call leaves it and
\* *store_value (NullValue stands for "not written")
subLoopIsVectorLoop(sub_loop, pattern_) ==
    LET induction_variable == getCanonicalInductionVariable(sub_loop)
        n == FirstStoreFrom(Instrs(sub_loop), 1)
    IN  IF induction_variable = NullValue
        THEN [ret |-> FALSE, pattern |-> pattern_, store_value |-> NullValue]
        ELSE IF n = 0
        THEN [ret |-> FALSE, pattern |-> pattern_, store_value |-> NullValue]
        ELSE LET store == Instrs(sub_loop)[n]
                 stored_value == store.ops[1]
                 stored_address == store.ops[2]
                 p2 == [pattern_ EXCEPT !.second_idx = induction_variable]
             IN  [ret |-> IF IsGEP(stored_address)
                          THEN IF getIndexVariable(stored_address) = induction_variable
                               THEN isLoopIterationIndependent(sub_loop, p2)
                               ELSE FALSE
                          ELSE FALSE,
                  pattern |-> p2,
                  store_value |-> stored_value]

\* InterchangeFrom that stops at the first store it meets
RECURSIVE InterchangeFrom_FirstStoreOnly(_, _, _, _)
InterchangeFrom_FirstStoreOnly(instrs, n, pattern_, do_interchange) ==
    IF n > Len(instrs) THEN do_interchange
    ELSE LET instruction == instrs[n] IN
        IF IsStore(instruction) /\ IsGEP(instruction.ops[2])
        THEN getIndexVariable(instruction.ops[2]) = pattern_.first_idx
        ELSE InterchangeFrom_FirstStoreOnly(instrs, n + 1, pattern_, do_interchange)

RECURSIVE InterchangeFrom(_, _, _, _)
InterchangeFrom(instrs, n, pattern_, do_interchange) ==
    IF n > Len(instrs) THEN do_interchange
    ELSE LET instruction == instrs[n] IN
        IF IsStore(instruction) /\ IsGEP(instruction.ops[2])
           /\ getIndexVariable(instruction.ops[2]) # pattern_.first_idx
        THEN InterchangeFrom(instrs, n + 1, pattern_, FALSE)
        ELSE InterchangeFrom(instrs, n + 1, pattern_, do_interchange)

\* isLoopInterchangeValid without the scan of the stores
isLoopInterchangeValid_NoStoreScan(sub_loop, pattern_) ==
    isLoopIterationIndependent(sub_loop, pattern_)

isLoopInterchangeValid(sub_loop, pattern_) ==
    IF ~isLoopIterationIndependent(sub_loop, pattern_) THEN FALSE
    ELSE InterchangeFrom(Instrs(sub_loop), 1, pattern_, TRUE)

\* LoopRange(int s, int e) stores both in unsigned int
LoopRange(s, e) == [start |-> s, end |-> e]

\* outcome of getLoopRange when cast<ConstantInt> is handed a null pointer
\* or a value that is no ConstantInt
RangeFault == [fault |-> TRUE]

RECURSIVE FirstOpFrom(_, _, _)
FirstOpFrom(instrs, n, op) ==
    IF n > Len(instrs) THEN 0
    ELSE IF instrs[n].op = op THEN n
    ELSE FirstOpFrom(instrs, n + 1, op)

\* getLoopRange that hands the two values to LoopRange in the wrong order
getLoopRange_Swapped(l) ==
    LET p == FirstOpFrom(Instrs(l), 1, "PHI")
        c == FirstOpFrom(Instrs(l), 1, "ICmp")
        start == IF p = 0 THEN NullValue ELSE Instrs(l)[p].ops[1]
        end == IF c = 0 THEN NullValue ELSE Instrs(l)[c].ops[2]
    IN  IF start = NullValue \/ end = NullValue THEN {RangeFault}
        ELSE IF start.kind = "Constant" /\ end.kind = "Constant"
        THEN {LoopRange(end.n, start.n)}
        ELSE {RangeFault}

\* The set of results getLoopRange can produce: the range read from the
\* first phi and the first icmp, or, where cast<ConstantInt> is misused,
\* a stop or a range of whatever the mistyped read returns.
getLoopRange(l) ==
    LET p == FirstOpFrom(Instrs(l), 1, "PHI")
        c == FirstOpFrom(Instrs(l), 1, "ICmp")
        start == IF p = 0 THEN NullValue ELSE Instrs(l)[p].ops[1]
        end == IF c = 0 THEN NullValue ELSE Instrs(l)[c].ops[2]
    IN  IF start = NullValue \/ end = NullValue THEN {RangeFault}
        ELSE IF start.kind = "Constant" /\ end.kind = "Constant"
        THEN {LoopRange(start.n, end.n)}
        ELSE {RangeFault}
             \cup {LoopRange(IF start.kind = "Constant" THEN start.n ELSE g,
                             IF end.kind = "Constant" THEN end.n ELSE h)
                   : g \in {0, -1}, h \in {0, -1}}

NumOperands(instr) == Len(instr.ops)

\* isEraseSubLoopValid; block is the body block, the header's successor
\* that is not the exit
isEraseSubLoopValid(l) ==
    \A n \in 1..Len(Body(l)) :
        LET instr == Body(l)[n] IN
        \A o \in 1..NumOperands(instr) :
            \/ IsGEP(instr) \/ IsStore(instr) \/ IsLoad(instr)
            \/ l.edgeDom

-----------------------------------------------------------------------------
\* The programs the pass is run on.

MkLoop(iv, stmts, exit, edgeDom, escapes) ==
    [depth |-> 2, iv |-> iv, hdr |-> "j32", stmts |-> stmts,
     exit |-> exit, edgeDom |-> edgeDom, escapes |-> escapes, subs |-> <<>>]

\* the header blocks of the loops over j
Headers == {"j32", "acc5", "accm4", "accx", "x3", "jn", "jm3", "nocmp", "uncond"}

StmtSeqs ==
    { <<>>,
      << <<"VAdd", "AJ">> >>, << <<"VCmp", "AJ">> >>, << <<"VConst", "AJ">> >>,
      << <<"VArg", "AJ">> >>, << <<"VPart", "AJ">> >>, << <<"VFAdd", "AJ">> >>,
      << <<"VLoadK", "AJ">> >>, << <<"VRaw", "AJ">> >>,
      << <<"VRow", "AI">> >>, << <<"VAdd", "AI">> >>,
      << <<"VAdd", "AKout">> >>, << <<"VAdd", "AKin">> >>, << <<"VAdd", "RawPtr">> >>,
      << <<"VRow", "AI">>, <<"VAdd", "AJ">> >>,
      << <<"VAdd", "AJ">>, <<"VConst", "AKout">> >>,
      << <<"VAdd", "AJ">>, <<"VConst", "RawPtr">> >> }

SubLoops ==
    { MkLoop(J, stmts, TRUE, TRUE, FALSE) : stmts \in StmtSeqs }
    \cup { MkLoop(NullValue, stmts, TRUE, TRUE, FALSE)
           : stmts \in {<<>>, << <<"VAdd", "AJ">> >>} }
    \cup { MkLoop(J, << <<"VAdd", "AJ">> >>, exit, edgeDom, escapes)
           : exit \in BOOLEAN, edgeDom \in BOOLEAN, escapes \in BOOLEAN }
    \cup { [MkLoop(J, << <<"VAdd", "AJ">> >>, TRUE, TRUE, FALSE) EXCEPT !.hdr = h]
           : h \in Headers }

\* the two loops over j of the filter kernel, a child that is no vector loop
\* and a child whose header has no successor outside the loop
KernelSubLoops ==
    { MkLoop(J, << <<"VAdd", "AJ">> >>, TRUE, TRUE, FALSE),
      MkLoop(J, << <<"VCmp", "AJ">> >>, TRUE, TRUE, FALSE),
      MkLoop(J, << <<"VRow", "AI">> >>, TRUE, TRUE, FALSE),
      MkLoop(J, << <<"VAdd", "AJ">> >>, FALSE, TRUE, FALSE) }

RECURSIVE SeqsOf(_, _)
SeqsOf(S, n) ==
    IF n <= 0 THEN {<<>>}
    ELSE LET shorter == SeqsOf(S, n - 1)
         IN  shorter \cup {Append(q, x) : q \in {r \in shorter : Len(r) = n - 1}, x \in S}

\* the child lists of an outer loop: first and last child are any of
\* SubLoops, the children between them are kernel loops
ChildSeqs ==
    { <<a>> : a \in SubLoops }
    \cup { <<a>> \o m \o <<b>>
           : a \in SubLoops, b \in SubLoops,
             m \in IF MaxSub < 2 THEN {} ELSE SeqsOf(KernelSubLoops, MaxSub - 2) }

\* an outer loop over i with child loops
OuterLoops ==
    { [depth |-> 1, iv |-> iv, hdr |-> "i64", stmts |-> <<>>,
       exit |-> TRUE, edgeDom |-> TRUE, escapes |-> FALSE, subs |-> subs]
      : iv \in {I, NullValue}, subs \in ChildSeqs }

\* the loops runOnLoop is handed: outer loops with children, top-level
\* loops without children, and the child loops themselves (depth 2)
TopLoops ==
    {l \in OuterLoops : l.iv = I \/ Len(l.subs) = 1}
    \cup {[l EXCEPT !.depth = 1] : l \in SubLoops}
    \cup {l \in SubLoops : l.stmts = << <<"VAdd", "AJ">> >> /\ l.edgeDom /\ ~l.escapes}

Decls ==
    { [pim_runindex |-> TRUE, pim_initsubloop |-> TRUE],
      [pim_runindex |-> FALSE, pim_initsubloop |-> TRUE],
      [pim_runindex |-> TRUE, pim_initsubloop |-> FALSE] }

-----------------------------------------------------------------------------
\* The pass: runOnLoop and the operations it calls.

\* key of a loop in calls and succ: 0 is the loop runOnLoop was invoked on,
\* k + 1 its child loop with ordinal k
SelfId == 0

SubId(k) == k + 1

single_loop_count == 447

\* the record compileSubLoop declares: sub_loop_index has no initializer
\* "CompiledSubLoop csl;" without the default member initializers
LocalCSL_CompiledSet ==
    [sub_loop_index |-> "indeterminate", compiled_expr |-> <<>>,
     range |-> [start |-> 0, end |-> 0], interchanged |-> TRUE, compiled |-> TRUE,
     cost |-> 0]

LocalCSL ==
    [sub_loop_index |-> "indeterminate", compiled_expr |-> <<>>,
     range |-> [start |-> 0, end |-> 0], interchanged |-> FALSE, compiled |-> FALSE,
     cost |-> 0]

\* the record std::map::operator[] creates for a missing key
DefaultCSL == [LocalCSL EXCEPT !.sub_loop_index = 0]

\* sub_loops.insert({k, csl}): an existing record is kept
MapPut_InsertOnly(m, k, csl) ==
    [x \in DOMAIN m \cup {k} |-> IF x \in DOMAIN m THEN m[x] ELSE csl]

\* sub_loops[k] = csl
MapPut(m, k, csl) == [x \in DOMAIN m \cup {k} |-> IF x = k THEN csl ELSE m[x]]

\* sub_loops[k] as an rvalue: a missing key is inserted
MapTouch(m, k) == IF k \in DOMAIN m THEN m ELSE MapPut(m, k, DefaultCSL)

\* unsigned int passed for an int parameter
ToInt(u) == u

RunCall(at, sub_loop_num, outer_iv) ==
    [fn |-> "pim_runindex", at |-> at, args |-> <<sub_loop_num, outer_iv>>]

InitCall(at, subloop_num, range_start, range_end) ==
    [fn |-> "pim_initsubloop", at |-> at,
     args |-> <<subloop_num, ToInt(range_start), ToInt(range_end)>>]

\* insertSubLoopPIMCall runs to its end only with the declaration present
\* and a non-null index value to pass; otherwise it dereferences null
insertSubLoopPIMCallOk(outer_iv) == decls.pim_runindex /\ outer_iv # NullValue

insertPIMInitCallOk == decls.pim_initsubloop

\* eraseSubLoop: both successors of the header's branch become the exit.
\* The results are the successor lists it can leave and whether the run
\* stopped in it. On a branch with one successor setSuccessor(1, exit) is
\* out of range: the build stops there, after setSuccessor(0, exit), or
\* writes the exit next to the branch's operand ("heap") and goes on.
eraseSubLoop(s, id, l) ==
    IF ~l.exit THEN {[succ |-> s, fault |-> FALSE]}
    ELSE IF Len(s[id]) = 2
    THEN {[succ |-> [s EXCEPT ![id] = <<"exit", "exit">>], fault |-> FALSE]}
    ELSE {[succ |-> [s EXCEPT ![id] = <<"exit">>], fault |-> TRUE],
          [succ |-> [s EXCEPT ![id] = <<"exit", "heap">>], fault |-> FALSE]}

\* the run stopped in a null dereference or a failed cast
Crash ==
    /\ pc' = "crashed"
    /\ UNCHANGED <<decls, loop, i, idx, sub_loops, calls, succ, ret, report,
                   loop_was_interchanged, fn>>

\* runOnLoop testing "depth >= 1" where the code tests "depth == 1"
Enter_AnyDepth ==
    /\ pc = "start"
    /\ IF loop.depth < 1
       THEN /\ pc' = "done"
            /\ ret' = "true"
            /\ UNCHANGED pattern
       ELSE /\ pattern' = [first_idx |-> getCanonicalInductionVariable(loop),
                           second_idx |-> NullValue]
            /\ pc' = IF Len(loop.subs) = 0 THEN "self" ELSE "scan"
            /\ UNCHANGED ret
    /\ UNCHANGED <<decls, loop, i, idx, sub_loops, calls, succ, report,
                   loop_was_interchanged, fn>>

Enter ==
    /\ pc = "start"
    /\ IF loop.depth # 1
       THEN /\ pc' = "done"
            /\ ret' = "true"
            /\ UNCHANGED pattern
       ELSE /\ pattern' = [first_idx |-> getCanonicalInductionVariable(loop),
                           second_idx |-> NullValue]
            /\ pc' = IF Len(loop.subs) = 0 THEN "self" ELSE "scan"
            /\ UNCHANGED ret
    /\ UNCHANGED <<decls, loop, i, idx, sub_loops, calls, succ, report,
                   loop_was_interchanged, fn>>

\* runOnLoop, the branch for a loop without sub-loops
ProcessSelf ==
    /\ pc = "self"
    /\ LET r == subLoopIsVectorLoop(loop, pattern) IN
       /\ pattern' = r.pattern
       /\ IF ~r.ret
          THEN /\ pc' = "done"
               /\ ret' = "false"
               /\ report' = Append(report,
                      [interchange |-> FALSE, vector |-> FALSE, value |-> r.store_value,
                       ast |-> NullAST, pattern_in |-> pattern, pattern_out |-> r.pattern])
               /\ UNCHANGED <<decls, loop, i, idx, sub_loops, calls, succ,
                              loop_was_interchanged, fn>>
          ELSE \E range \in getLoopRange(loop) :
               \E ast \in extractComputation(r.store_value, r.pattern) :
                  IF \/ range = RangeFault \/ ast = Fault
                     \/ ~insertSubLoopPIMCallOk(r.pattern.first_idx)
                  THEN Crash
                  ELSE IF ~insertPIMInitCallOk
                  THEN /\ calls' = Append(calls, RunCall(SelfId, single_loop_count,
                                                         r.pattern.first_idx))
                       /\ pc' = "crashed"
                       /\ UNCHANGED <<decls, loop, i, idx, sub_loops, succ, ret, report,
                                      loop_was_interchanged, fn>>
                  ELSE \E e \in IF isEraseSubLoopValid(loop)
                                THEN eraseSubLoop(succ, SelfId, loop)
                                ELSE {[succ |-> succ, fault |-> FALSE]} :
                       /\ calls' = calls \o
                            <<RunCall(SelfId, single_loop_count, r.pattern.first_idx),
                              InitCall(SelfId, single_loop_count, range.start, range.end)>>
                       /\ succ' = e.succ
                       /\ report' = Append(report,
                              [interchange |-> FALSE, vector |-> TRUE,
                               value |-> r.store_value, ast |-> ast,
                               cost |-> computeCost(ast), range |-> range,
                               pattern_in |-> pattern, pattern_out |-> r.pattern])
                       /\ pc' = IF e.fault THEN "crashed" ELSE "done"
                       /\ ret' = IF e.fault THEN ret ELSE "true"
                       /\ UNCHANGED <<decls, loop, i, idx, sub_loops,
                                      loop_was_interchanged, fn>>

\* one iteration of "for (auto sub_loop : sub_loop_vector) compileSubLoop(...)"
compileSubLoop ==
    /\ pc = "scan"
    /\ i < Len(loop.subs)
    /\ LET sub_loop == loop.subs[i + 1]
           sub_loop_num == i
           independent == isLoopIterationIndependent(sub_loop, pattern)
           interchange == isLoopInterchangeValid(sub_loop, pattern)
           r == subLoopIsVectorLoop(sub_loop, pattern)
           next_pc == IF i + 1 = Len(loop.subs) THEN "rewrite" ELSE "scan"
       IN
       /\ pattern' = r.pattern
       /\ IF ~r.ret
          THEN /\ sub_loops' = MapPut(sub_loops, sub_loop_num, LocalCSL)
               /\ report' = Append(report,
                      [independent |-> independent, interchange |-> interchange,
                       vector |-> FALSE, value |-> r.store_value, ast |-> NullAST,
                       pattern_in |-> pattern, pattern_out |-> r.pattern])
               /\ i' = i + 1
               /\ pc' = next_pc
               /\ UNCHANGED <<decls, loop, idx, calls, succ, ret,
                              loop_was_interchanged, fn>>
          ELSE \E range \in getLoopRange(sub_loop) :
               \E ast \in extractComputation(r.store_value, r.pattern) :
                  IF range = RangeFault \/ ast = Fault
                  THEN Crash
                  ELSE /\ sub_loops' = MapPut(sub_loops, sub_loop_num,
                              [sub_loop_index |-> sub_loop_num,
                               compiled_expr |-> <<"pim_runindex(sub_loop_fn", sub_loop_num,
                                                   ", index);">>,
                               range |-> range, interchanged |-> FALSE,
                               compiled |-> TRUE, cost |-> computeCost(ast)])
                       /\ report' = Append(report,
                              [independent |-> independent,
                               interchange |-> interchange, vector |-> TRUE,
                               value |-> r.store_value, ast |-> ast, range |-> range,
                               pattern_in |-> pattern, pattern_out |-> r.pattern])
                       /\ i' = i + 1
                       /\ pc' = next_pc
                       /\ UNCHANGED <<decls, loop, idx, calls, succ, ret,
                                      loop_was_interchanged, fn>>

\* RewriteStep that also inserts the sub-loop's init-call in the same
\* iteration
RewriteStep_Interleaved ==
    /\ pc = "rewrite"
    /\ idx < i
    /\ LET m == MapTouch(sub_loops, idx)
           sub_loop == loop.subs[idx + 1]
           next_pc == IF idx + 1 = i THEN "init" ELSE "rewrite"
           next_idx == IF idx + 1 = i THEN 0 ELSE idx + 1
       IN
       IF m[idx].compiled /\ isEraseSubLoopValid(sub_loop)
       THEN IF ~insertSubLoopPIMCallOk(pattern.first_idx)
            THEN /\ Crash
                 /\ UNCHANGED pattern
            ELSE \E e \in eraseSubLoop(succ, SubId(idx), sub_loop) :
                 /\ calls' = calls \o <<RunCall(SubId(idx), idx, pattern.first_idx),
                                         InitCall(SelfId, idx, m[idx].range.start,
                                                  m[idx].range.end)>>
                 /\ succ' = e.succ
                 /\ sub_loops' = m
                 /\ idx' = IF e.fault THEN idx ELSE next_idx
                 /\ pc' = IF e.fault THEN "crashed" ELSE next_pc
                 /\ UNCHANGED <<decls, loop, pattern, i, ret, report,
                                loop_was_interchanged, fn>>
       ELSE /\ sub_loops' = m
            /\ idx' = next_idx
            /\ pc' = next_pc
            /\ UNCHANGED <<decls, loop, pattern, i, calls, succ, ret, report,
                           loop_was_interchanged, fn>>

\* one iteration of the loop that replaces the compiled sub-loops
RewriteStep ==
    /\ pc = "rewrite"
    /\ idx < i
    /\ LET m == MapTouch(sub_loops, idx)
           sub_loop == loop.subs[idx + 1]
           next_pc == IF idx + 1 = i THEN "init" ELSE "rewrite"
           next_idx == IF idx + 1 = i THEN 0 ELSE idx + 1
       IN
       IF m[idx].compiled /\ isEraseSubLoopValid(sub_loop)
       THEN IF ~insertSubLoopPIMCallOk(pattern.first_idx)
            THEN /\ Crash
                 /\ UNCHANGED pattern
            ELSE \E e \in eraseSubLoop(succ, SubId(idx), sub_loop) :
                 /\ calls' = Append(calls, RunCall(SubId(idx), idx, pattern.first_idx))
                 /\ succ' = e.succ
                 /\ sub_loops' = m
                 /\ idx' = IF e.fault THEN idx ELSE next_idx
                 /\ pc' = IF e.fault THEN "crashed" ELSE next_pc
                 /\ UNCHANGED <<decls, loop, pattern, i, ret, report,
                                loop_was_interchanged, fn>>
       ELSE /\ sub_loops' = m
            /\ idx' = next_idx
            /\ pc' = next_pc
            /\ UNCHANGED <<decls, loop, pattern, i, calls, succ, ret, report,
                           loop_was_interchanged, fn>>

\* one iteration of insertLoopPIMCalls; after the last one runOnLoop returns
insertLoopPIMCalls ==
    /\ pc = "init"
    /\ idx < i
    /\ LET m == MapTouch(sub_loops, idx)
           last == idx + 1 = i
       IN
       IF m[idx].compiled /\ ~insertPIMInitCallOk
       THEN /\ Crash
            /\ UNCHANGED pattern
       ELSE /\ calls' = IF m[idx].compiled
                        THEN Append(calls, InitCall(SelfId, idx, m[idx].range.start,
                                                    m[idx].range.end))
                        ELSE calls
            /\ sub_loops' = m
            /\ idx' = idx + 1
            /\ pc' = IF last THEN "done" ELSE "init"
            /\ ret' = IF last THEN "true" ELSE ret
            /\ UNCHANGED <<decls, loop, pattern, i, succ, report,
                           loop_was_interchanged, fn>>

\* successors of the branch that ends a loop's header
BranchSuccessors(l) ==
    IF Len(Header(l)[Len(Header(l))].ops) = 3 THEN <<"body", "exit">> ELSE <<"body">>

InitialSucc(l) ==
    [id \in 0..Len(l.subs) |->
        IF id = SelfId THEN BranchSuccessors(l) ELSE BranchSuccessors(l.subs[id])]

Init ==
    /\ decls \in Decls
    /\ loop \in TopLoops
    /\ pc = "start"
    /\ pattern = [first_idx |-> NullValue, second_idx |-> NullValue]
    /\ i = 0
    /\ idx = 0
    /\ sub_loops = <<>>
    /\ calls = <<>>
    /\ succ = InitialSucc(loop)
    /\ ret = "none"
    /\ report = <<>>
    /\ loop_was_interchanged = FALSE
    /\ fn = [mode |-> "idle"]

Next ==
    \/ Enter
    \/ ProcessSelf
    \/ compileSubLoop
    \/ RewriteStep
    \/ insertLoopPIMCalls

Spec == Init /\ [][Next]_vars

-----------------------------------------------------------------------------
\* The functions on their own: extractComputation, computeCost and
\* doLoopInterchange applied to inputs drawn from bounded sets.

\* doLoopInterchange without the temporary
doLoopInterchange_NoTemp ==
    /\ fn.mode = "interchange"
    /\ fn.calls < 2
    /\ pattern' = [first_idx |-> pattern.second_idx, second_idx |-> pattern.second_idx]
    /\ loop_was_interchanged' = TRUE
    /\ fn' = [fn EXCEPT !.calls = fn.calls + 1]
    /\ UNCHANGED <<decls, pc, loop, i, idx, sub_loops, calls, succ, ret, report>>

\* does not need to move instructions: it flips the access pattern and
\* records that the flip happened
doLoopInterchange ==
    /\ fn.mode = "interchange"
    /\ fn.calls < 2
    /\ pattern' = [first_idx |-> pattern.second_idx, second_idx |-> pattern.first_idx]
    /\ loop_was_interchanged' = TRUE
    /\ fn' = [fn EXCEPT !.calls = fn.calls + 1]
    /\ UNCHANGED <<decls, pc, loop, i, idx, sub_loops, calls, succ, ret, report>>

Extract ==
    /\ fn.mode = "extract"
    /\ ~fn.done
    /\ \E ast \in extractComputation(fn.value, pattern) :
           fn' = [fn EXCEPT !.done = TRUE, !.ast = ast]
    /\ UNCHANGED <<decls, pc, loop, pattern, i, idx, sub_loops, calls, succ, ret,
                   report, loop_was_interchanged>>

Cost ==
    /\ fn.mode = "cost"
    /\ ~fn.done
    /\ fn' = [fn EXCEPT !.done = TRUE, !.cost = computeCost(fn.tree)]
    /\ UNCHANGED <<decls, pc, loop, pattern, i, idx, sub_loops, calls, succ, ret,
                   report, loop_was_interchanged>>

\* The tree extractComputation builds for the value v_depth of the chain
\*   v_0 = constant, v_(n+1) = op v_n, v_n
\* every use of a shared operand is extracted into a subtree of its own.
RECURSIVE ChainTree(_, _)
ChainTree(op, depth) ==
    IF depth = 0 THEN ExtractAST("AST_TYPE_CONSTANT", Const(7))
    ELSE LET child == ChainTree(op, depth - 1)
         IN  [ExtractAST("AST_TYPE_OP", Inst(op, <<>>)) EXCEPT !.left = child,
                                                                !.right = child]

\* a tree with a marked leaf position: the root itself, or the left or the
\* right child of a root operator whose other child is the chain tree sib
Plug(ctx, sub) ==
    CASE ctx.at = "root" -> sub
      [] ctx.at = "left" ->
            [ExtractAST("AST_TYPE_OP", Inst(ctx.op, <<>>))
                EXCEPT !.left = sub, !.right = ChainTree(ctx.sib.op, ctx.sib.depth)]
      [] ctx.at = "right" ->
            [ExtractAST("AST_TYPE_OP", Inst(ctx.op, <<>>))
                EXCEPT !.left = ChainTree(ctx.sib.op, ctx.sib.depth), !.right = sub]

\* computeCost of a tree with a leaf at the marked position, and of the
\* same tree with that leaf replaced by the operator node fn.grown
CostGrown ==
    /\ fn.mode = "grow"
    /\ ~fn.done
    /\ LET leaf == ExtractAST(fn.leaf, Const(7))
           sub == ChainTree(fn.grown.op, fn.grown.depth)
       IN  fn' = [fn EXCEPT !.done = TRUE,
                            !.cost1 = computeCost(Plug(fn.ctx, leaf)),
                            !.cost2 = computeCost(Plug(fn.ctx, sub))]
    /\ UNCHANGED <<decls, pc, loop, pattern, i, idx, sub_loops, calls, succ, ret,
                   report, loop_was_interchanged>>

LeafValues ==
    {Const(7), Arg("x"), Load(GEP(I, TRUE)), Load(GEP(J, TRUE)), Load(GEP(K, TRUE)),
     Load(RawPtr)}

UnaryOps == {"ZExt", "SExt", "Trunc"}

\* Below the root the generated DAGs use representative leaves and
\* opcodes: a binary opcode extractComputation accepts, one it does not,
\* and a conversion; the roots range over every opcode and every leaf.
InnerLeaves == {Const(7), Arg("x"), Load(GEP(J, TRUE)), Load(GEP(K, TRUE))}

InnerBinaryOps == {"Add", "FAdd"}

\* the values with exactly n operator instructions
RECURSIVE ValuesOfSize(_)
ValuesOfSize(n) ==
    IF n = 0 THEN InnerLeaves
    ELSE {Inst("ZExt", <<a>>) : a \in ValuesOfSize(n - 1)}
         \cup UNION { {Inst(op, <<a, b>>) : op \in InnerBinaryOps,
                                           a \in ValuesOfSize(m),
                                           b \in ValuesOfSize(n - 1 - m)}
                      : m \in 0..(n - 1) }

ExtractInputs ==
    UNION {ValuesOfSize(n) : n \in 0..MaxOps}
    \cup LeafValues
    \cup {Inst(op, <<a, b>>) : op \in ExtractOps \cup {"FAdd"}, a \in LeafValues,
                               b \in LeafValues}
    \cup {Inst(op, <<a>>) : op \in UnaryOps, a \in LeafValues}

ExtractPatterns == [first_idx : {I, NullValue}, second_idx : {J, NullValue}]

Leaf(type) == ExtractAST(type, Arg("leaf"))

Node(op, l, r) ==
    [ast_type |-> "AST_TYPE_OP", value |-> Inst(op, <<>>), left |-> l, right |-> r]

\* opcodes of the generated operator nodes below the root; FAdd is an
\* opcode computeCost has no case for
InnerNodeOps == {"Add", "Xor", "FAdd"}

\* the well-formed trees with exactly n operator nodes
RECURSIVE TreesOfSize(_)
TreesOfSize(n) ==
    IF n = 0 THEN {Leaf("AST_TYPE_CONSTANT"), Leaf("AST_TYPE_ARRAY")}
    ELSE UNION { {Node(op, l, r) : op \in InnerNodeOps,
                                   l \in TreesOfSize(m), r \in TreesOfSize(n - 1 - m)}
                 : m \in 0..(n - 1) }

CostInputs ==
    UNION {TreesOfSize(n) : n \in 0..MaxAstOps}
    \cup UNION { UNION { {Node(op, l, r) : op \in ExtractOps \cup {"FAdd"},
                                          l \in TreesOfSize(m),
                                          r \in TreesOfSize(n - 1 - m)}
                         : m \in 0..(n - 1) }
                 : n \in 1..MaxAstOps }

AllIndexes == {I, J, K, NullValue}

\* chains of a weighted and of a weightless operator, shallow and deep
Chains == [op : {"UDiv", "Shl"}, depth : {1, MaxDepth}]

GrowContexts ==
    {[at |-> "root", op |-> "Add", sib |-> [op |-> "UDiv", depth |-> 1]]}
    \cup [at : {"left", "right"}, op : {"Add"}, sib : Chains]

InitFn ==
    /\ decls = [pim_runindex |-> TRUE, pim_initsubloop |-> TRUE]
    /\ loop = MkLoop(J, <<>>, TRUE, TRUE, FALSE)
    /\ pc = "idle"
    /\ i = 0
    /\ idx = 0
    /\ sub_loops = <<>>
    /\ calls = <<>>
    /\ succ = InitialSucc(loop)
    /\ ret = "none"
    /\ report = <<>>
    /\ loop_was_interchanged = FALSE
    /\ \/ /\ pattern \in ExtractPatterns
          /\ \E v \in ExtractInputs :
                 fn = [mode |-> "extract", value |-> v, done |-> FALSE, ast |-> NullAST]
       \/ /\ pattern = [first_idx |-> NullValue, second_idx |-> NullValue]
          /\ \E t \in CostInputs :
                 fn = [mode |-> "cost", tree |-> t, done |-> FALSE, cost |-> 0]
       \/ /\ pattern \in [first_idx : AllIndexes, second_idx : AllIndexes]
          /\ fn = [mode |-> "interchange", pattern0 |-> pattern, calls |-> 0]
       \/ /\ pattern = [first_idx |-> NullValue, second_idx |-> NullValue]
          /\ \E ctx \in GrowContexts, g \in Chains,
                leaf \in {"AST_TYPE_CONSTANT", "AST_TYPE_ARRAY"} :
                 fn = [mode |-> "grow", ctx |-> ctx, leaf |-> leaf, grown |-> g,
                       done |-> FALSE, cost1 |-> 0, cost2 |-> 0]

NextFn ==
    \/ Extract
    \/ Cost
    \/ CostGrown
    \/ doLoopInterchange

SpecFn == InitFn /\ [][NextFn]_vars

-----------------------------------------------------------------------------
\* Properties.

\* the loop the k-th report entry is about
Examined(k) == IF Len(loop.subs) = 0 THEN loop ELSE loop.subs[k]

ExaminedId(k) == IF Len(loop.subs) = 0 THEN SelfId ELSE SubId(k - 1)

Untouched(id) == succ[id] = InitialSucc(loop)[id]

CallsAt(id) == {n \in 1..Len(calls) : calls[n].at = id}

\* init-calls naming sub-loop ordinal k
InitCallsFor(k) ==
    {n \in 1..Len(calls) : calls[n].fn = "pim_initsubloop" /\ calls[n].args[1] = k}

StorePositions(l) == {n \in 1..Len(Instrs(l)) : IsStore(Instrs(l)[n])}

\* The program has both runtime declarations, its outer loop has a canonical
\* induction variable and every loop has an exit block: nothing but the
\* operation a property is about can go wrong in it.
Regular ==
    /\ decls.pim_runindex
    /\ decls.pim_initsubloop
    /\ loop.iv # NullValue
    /\ loop.exit
    /\ \A k \in 1..Len(loop.subs) : loop.subs[k].exit

\* extractComputation returns no tree for the value the entry recorded
ExtractsNone(e) ==
    /\ e.value # NullValue
    /\ extractComputation(e.value, e.pattern_out) = {NullAST}

\* C1: a (sub-)loop whose stored value extractComputation returns no tree
\* for is not compiled: its record has compiled = false, no run-call or
\* init-call is inserted for it and its header branch is left alone.
C1_NoTreeNotCompiled ==
    \A k \in 1..Len(report) :
        (Regular /\ ExtractsNone(report[k])) =>
            /\ CallsAt(ExaminedId(k)) = {}
            /\ Untouched(ExaminedId(k))
            /\ Len(loop.subs) > 0 =>
                   /\ ~sub_loops[k - 1].compiled
                   /\ InitCallsFor(k - 1) = {}

\* every operator node of the tree has both children, recursively
RECURSIVE WellFormed(_)
WellFormed(ast) ==
    /\ ast # NullAST
    /\ ast # Fault
    /\ ast.ast_type = "AST_TYPE_OP" => WellFormed(ast.left) /\ WellFormed(ast.right)

\* some node of the DAG has a defining form extractComputation rejects
RECURSIVE HasDisallowed(_, _)
HasDisallowed(v, p) ==
    IF v.kind = "Constant" THEN FALSE
    ELSE IF v.kind # "Instruction" THEN TRUE
    ELSE IF v.op \in ExtractOps THEN HasDisallowed(v.ops[1], p) \/ HasDisallowed(v.ops[2], p)
    ELSE IF v.op \in {"ZExt", "SExt"} THEN HasDisallowed(v.ops[1], p)
    ELSE IF v.op = "Load" /\ IsGEP(v.ops[1])
    THEN getIndexVariable(v.ops[1]) \notin {p.first_idx, p.second_idx}
    ELSE TRUE

\* C2: extractComputation never returns a partial tree: a DAG with a
\* disallowed node at any depth yields no tree, and every operator node of a
\* returned tree has both children.
C2_NoPartialTree ==
    (fn.mode = "extract" /\ fn.done /\ fn.ast # Fault) =>
        /\ HasDisallowed(fn.value, pattern) => fn.ast = NullAST
        /\ fn.ast # NullAST => WellFormed(fn.ast)

Qualifies(l, n) ==
    LET a == Instrs(l)[n].ops[2] IN IsGEP(a) /\ getIndexVariable(a) = l.iv

QualifyingStores(l) == {n \in StorePositions(l) : Qualifies(l, n)}

Min(S) == CHOOSE n \in S : \A m \in S : n <= m

\* C4: subLoopIsVectorLoop is true exactly when the loop has an induction
\* variable, some store of its body qualifies and its iterations are
\* independent; the value it reports is that of the first qualifying store,
\* also behind stores that do not qualify.
C4_VectorLoopVerdict ==
    \A k \in 1..Len(report) :
        LET l == Examined(k)
            e == report[k]
        IN  Regular =>
            /\ e.vector = (/\ l.iv # NullValue
                           /\ QualifyingStores(l) # {}
                           /\ isLoopIterationIndependent(l, e.pattern_in))
            /\ e.vector => e.value = Instrs(l)[Min(QualifyingStores(l))].ops[1]

\* the store at position n writes through a getelementptr whose trailing
\* index is the loop's induction variable or the row index
IndexedStore(l, n, p) ==
    LET a == Instrs(l)[n].ops[2]
    IN  IsGEP(a) /\ getIndexVariable(a) \in {l.iv, p.first_idx}

\* C5: isLoopIterationIndependent is true only if every store of the loop
\* writes through a getelementptr indexed by the induction variable or by
\* the row index, wherever that getelementptr is defined.
C5_IndependentStoresIndexed ==
    (Regular /\ Len(loop.subs) > 0) =>
        \A k \in 1..Len(report) :
            report[k].independent =>
                \A n \in StorePositions(loop.subs[k]) :
                    IndexedStore(loop.subs[k], n, report[k].pattern_in)

\* a getelementptr among the loop's instructions indexed by neither the
\* induction variable nor the row index
BadBodyGEP(l, p) ==
    \E n \in 1..Len(Instrs(l)) :
        /\ IsGEP(Instrs(l)[n])
        /\ getIndexVariable(Instrs(l)[n]) \notin {l.iv, p.first_idx}

\* a store among the loop's instructions whose address is no getelementptr
RawStore(l) == \E n \in StorePositions(l) : ~IsGEP(Instrs(l)[n].ops[2])

\* C6: isLoopIterationIndependent is false whenever the loop has no
\* canonical induction variable, or a getelementptr of its body is indexed
\* by something other than the induction variable or the row index, or a
\* store of its body writes through an address that is no getelementptr.
C6_IndependenceConservative ==
    Len(loop.subs) > 0 =>
        \A k \in 1..Len(report) :
            LET l == loop.subs[k] IN
            (\/ l.iv = NullValue
             \/ BadBodyGEP(l, report[k].pattern_in)
             \/ RawStore(l)) => ~report[k].independent

\* each of the three causes was seen rejecting a loop on its own
C6_Witness ==
    /\ Len(loop.subs) > 0
    /\ Len(report) = Len(loop.subs)
    /\ \E k \in 1..Len(report) :
           LET l == loop.subs[k] IN
           /\ RawStore(l) /\ l.iv # NullValue /\ ~BadBodyGEP(l, report[k].pattern_in)
           /\ ~report[k].independent
    /\ \E k \in 1..Len(report) :
           LET l == loop.subs[k] IN
           /\ BadBodyGEP(l, report[k].pattern_in) /\ l.iv # NullValue /\ ~RawStore(l)
           /\ ~report[k].independent

\* C7: isLoopInterchangeValid is true exactly when the iterations are
\* independent and every store writes through a getelementptr whose
\* trailing index is the row index.
C7_InterchangeVerdict ==
    Len(loop.subs) > 0 =>
        \A k \in 1..Len(report) :
            LET l == loop.subs[k]
                p == report[k].pattern_in
            IN  report[k].interchange =
                    (/\ report[k].independent
                     /\ \A n \in StorePositions(l) :
                            LET a == Instrs(l)[n].ops[2]
                            IN  IsGEP(a) /\ getIndexVariable(a) = p.first_idx)

\* one loop was found valid for interchange, and one independent loop with
\* a row-indexed store followed by a store keyed by its own index was not
C7_Witness ==
    /\ Len(loop.subs) > 0
    /\ \E k \in 1..Len(report) :
           report[k].interchange /\ StorePositions(loop.subs[k]) # {}
    /\ \E k \in 1..Len(report) :
           /\ report[k].independent
           /\ ~report[k].interchange
           /\ Cardinality(StorePositions(loop.subs[k])) = 2

\* C8: a sub-loop for which isLoopInterchangeValid holds has the pattern
\* swapped before detection and its record flagged interchanged; one for
\* which it does not hold has neither.
C8_InterchangeApplied ==
    (Regular /\ Len(loop.subs) > 0) =>
        \A k \in 1..Len(report) :
            StorePositions(loop.subs[k]) # {} =>
                /\ sub_loops[k - 1].interchanged = report[k].interchange
                /\ report[k].interchange => loop_was_interchanged

\* C9: one doLoopInterchange turns (first_idx, second_idx) into
\* (second_idx, first_idx), two give back the original pattern, and no call
\* is inserted and no branch changed by it.
C9_SwapInvolution ==
    fn.mode = "interchange" =>
        /\ fn.calls = 1 =>
               /\ pattern.first_idx = fn.pattern0.second_idx
               /\ pattern.second_idx = fn.pattern0.first_idx
        /\ fn.calls = 2 => pattern = fn.pattern0
        /\ calls = <<>>
        /\ succ = InitialSucc(loop)
        /\ sub_loops = <<>>

\* the swap was applied twice to a pattern with a null component
C9_Witness ==
    /\ fn.mode = "interchange"
    /\ fn.calls = 2
    /\ fn.pattern0.first_idx # NullValue
    /\ fn.pattern0.second_idx = NullValue
    /\ loop_was_interchanged

\* the weight table of the cost model as the specification states it
RefWeight(op) ==
    CASE op \in {"Add", "Sub"} -> 1187
      [] op = "Mul" -> 16066
      [] op \in {"SDiv", "UDiv"} -> 61252
      [] op \in {"And", "Or"} -> 50
      [] op = "Xor" -> 99
      [] op \in {"LShr", "AShr", "Shl"} -> 0
      [] op = "ICmp" -> 173
      [] OTHER -> 0

RECURSIVE RefCost(_)
RefCost(t) ==
    IF t.ast_type = "AST_TYPE_OP"
    THEN RefCost(t.left) + RefCost(t.right) + RefWeight(t.value.op)
    ELSE 0

\* C10: computeCost is the bottom-up fold: 0 for a constant or array-load
\* leaf, and for an operator node the sum of its children's costs plus the
\* weight of its operator, 0 for an operator without a weight.
C10_CostIsFold ==
    (fn.mode = "cost" /\ fn.done) => fn.cost = RefCost(fn.tree)

RECURSIVE NodeOps(_)
NodeOps(t) ==
    IF t.ast_type = "AST_TYPE_OP"
    THEN {t.value.op} \cup NodeOps(t.left) \cup NodeOps(t.right)
    ELSE {}

\* the cost of a nested tree with an unweighted operator was computed
C10_Witness ==
    /\ fn.mode = "cost"
    /\ fn.done
    /\ NodeOps(fn.tree) = {"Mul", "FAdd"}
    /\ fn.tree.left.ast_type = "AST_TYPE_OP"
    /\ fn.cost = 16066

\* a <= b for two unsigned int values
LeU(a, b) ==
    IF (a >= 0) = (b >= 0) THEN a <= b ELSE a >= 0

\* C11: replacing one leaf of a tree by an operator node with its own
\* subtrees never lowers the unsigned 32-bit value computeCost returns.
C11_CostMonotone ==
    (fn.mode = "grow" /\ fn.done) => LeU(fn.cost1, fn.cost2)

\* the loop's induction phi starts at a constant and the compare of that
\* phi in its header has a constant bound
ExitCompares(l) ==
    {n \in 1..Len(Instrs(l)) : Instrs(l)[n].op = "ICmp" /\ Instrs(l)[n].ops[1] = l.iv}

ConstantBounds(l) ==
    /\ l.iv # NullValue
    /\ l.iv.ops[1].kind = "Constant"
    /\ \E n \in ExitCompares(l) : Instrs(l)[n].ops[2].kind = "Constant"

TripBounds(l) ==
    LET n == CHOOSE m \in ExitCompares(l) : TRUE
    IN  LoopRange(l.iv.ops[1].n, Instrs(l)[n].ops[2].n)

\* C12: the range recorded for a vector loop with constant bounds is the
\* initial value of its induction phi and the bound of its exit compare,
\* also when another merge value or another compare comes first in scan
\* order.
C12_RangeIsTripBounds ==
    (Regular /\ Len(loop.subs) > 0) =>
        \A k \in 1..Len(report) :
            (report[k].vector /\ ConstantBounds(loop.subs[k])) =>
                sub_loops[k - 1].range = TripBounds(loop.subs[k])

\* the values range resolution selects: the incoming value of the first
\* merge value and the bound of the first comparison, NullValue when the
\* loop has none
SelectedStart(l) ==
    LET p == {n \in 1..Len(Instrs(l)) : Instrs(l)[n].op = "PHI"}
    IN  IF p = {} THEN NullValue ELSE Instrs(l)[Min(p)].ops[1]

SelectedEnd(l) ==
    LET c == {n \in 1..Len(Instrs(l)) : Instrs(l)[n].op = "ICmp"}
    IN  IF c = {} THEN NullValue ELSE Instrs(l)[Min(c)].ops[2]

NoRange(l) ==
    \/ SelectedStart(l).kind # "Constant"
    \/ SelectedEnd(l).kind # "Constant"

\* the loops a visit examines: the child loops, or the loop itself
Examinees == IF Len(loop.subs) = 0 THEN <<loop>> ELSE loop.subs

\* no stored value of an examined loop loads through an address that is no
\* getelementptr
CleanExtraction ==
    \A k \in 1..Len(Examinees) :
        \A n \in StorePositions(Examinees[k]) :
            Fault \notin extractComputation(Instrs(Examinees[k])[n].ops[1],
                                            [first_idx |-> loop.iv,
                                             second_idx |-> Examinees[k].iv])

\* C13: a sub-loop whose range cannot be resolved (no merge value, no
\* comparison, or a selected value that is no integer constant) is skipped:
\* the run does not stop in it, its record is not compiled and carries no
\* range, and the sub-loops after it are still examined.
C13_RangeFailsCleanly ==
    (Regular /\ Len(loop.subs) > 0 /\ CleanExtraction) =>
        /\ pc # "crashed"
        /\ \A k \in 1..Len(report) :
               NoRange(loop.subs[k]) => ~sub_loops[k - 1].compiled

\* C14: every record with compiled = true whose loop has constant selected
\* bounds has, in the unsigned fields it is stored in, range.start <=
\* range.end and a cost that is not below 0.
C14_CompiledRangeOrdered ==
    (Regular /\ Len(loop.subs) > 0) =>
        \A k \in 1..Len(report) :
            (sub_loops[k - 1].compiled /\ ~NoRange(loop.subs[k])) =>
                /\ LeU(sub_loops[k - 1].range.start, sub_loops[k - 1].range.end)
                /\ LeU(0, sub_loops[k - 1].cost)

CallsTo(name) == {n \in 1..Len(calls) : calls[n].fn = name}

\* nothing but a missing declaration can go wrong in the visit
OnlyDeclsMissing ==
    /\ loop.iv # NullValue
    /\ \A k \in 1..Len(Examinees) : Examinees[k].exit /\ ~NoRange(Examinees[k])
    /\ CleanExtraction

\* C15: with pim_runindex or pim_initsubloop not declared, the insertion
\* that needs it is skipped and the visit goes on: the run does not stop,
\* and no call to the missing function is inserted.
C15_MissingDeclSkipped ==
    OnlyDeclsMissing =>
        /\ pc # "crashed"
        /\ ~decls.pim_runindex => CallsTo("pim_runindex") = {}
        /\ ~decls.pim_initsubloop => CallsTo("pim_initsubloop") = {}

\* the loop whose header branch succ[id] describes
LoopOf(id) == IF id = SelfId THEN loop ELSE loop.subs[id]

AllExit(id) == [n \in 1..Len(InitialSucc(loop)[id]) |-> "exit"]

\* every analysis of the visit succeeds and both declarations are present
OnlyEraseCanFail ==
    /\ decls.pim_runindex
    /\ decls.pim_initsubloop
    /\ loop.iv # NullValue
    /\ \A k \in 1..Len(Examinees) : ~NoRange(Examinees[k])
    /\ CleanExtraction

\* C16: eraseSubLoop is all-or-nothing: the header branch of a loop keeps
\* its successors, or, only if the loop has an exit block, every successor
\* is the exit block; the run does not stop inside the edit, also when the
\* branch has a single successor.
C16_EraseAllOrNothing ==
    OnlyEraseCanFail =>
        /\ pc # "crashed"
        /\ \A id \in DOMAIN succ :
               \/ Untouched(id)
               \/ LoopOf(id).exit /\ succ[id] = AllExit(id)

\* C17: an outer loop with child loops and no canonical induction variable
\* is rejected before any child is analysed: no child is examined with a
\* null pattern.first_idx, nothing is recorded, inserted or erased for it,
\* and the visit does not stop.
C17_NoIndexOuterRejected ==
    (decls.pim_runindex /\ decls.pim_initsubloop
     /\ loop.depth = 1 /\ Len(loop.subs) > 0 /\ loop.iv = NullValue) =>
        /\ report = <<>>
        /\ sub_loops = <<>>
        /\ calls = <<>>
        /\ succ = InitialSucc(loop)
        /\ pc # "crashed"

\* the filter kernel: for i < 64 { for j < 32 out[j] = out[j] + A[i][j] }
GrimOuter ==
    [depth |-> 1, iv |-> I, hdr |-> "i64", stmts |-> <<>>, exit |-> TRUE,
     edgeDom |-> TRUE, escapes |-> FALSE,
     subs |-> <<MkLoop(J, << <<"VAdd", "AJ">> >>, TRUE, TRUE, FALSE)>>]

\* ... followed by for j < 32 out[j] = out[j] > 100
GrimThreshold ==
    [MkLoop(J, << <<"VCmp", "AJ">> >>, TRUE, TRUE, FALSE) EXCEPT !.depth = 1]

\* the shape of a tree: node kinds and operator codes
RECURSIVE Shape(_)
Shape(ast) ==
    IF ast = NullAST THEN <<"none">>
    ELSE IF ast = Fault THEN <<"fault">>
    ELSE IF ast.ast_type = "AST_TYPE_OP"
    THEN <<"Operator", ast.value.op, Shape(ast.left), Shape(ast.right)>>
    ELSE IF ast.ast_type = "AST_TYPE_ARRAY" THEN <<"ArrayLoad">>
    ELSE <<"Constant">>

\* C18: on the filter kernel the accumulation loop is a vector loop with
\* range [0, 32), tree Operator(Add, ArrayLoad, ArrayLoad) and cost 1187,
\* and the threshold loop, visited on its own, is compiled with tree
\* Operator(ICmp, ArrayLoad, Constant) and cost 173.
C18_GrimFilterScenario ==
    /\ (loop = GrimOuter /\ Len(report) >= 1) =>
           /\ report[1].vector
           /\ Shape(report[1].ast) = <<"Operator", "Add", <<"ArrayLoad">>, <<"ArrayLoad">> >>
           /\ sub_loops[0].compiled
           /\ sub_loops[0].range = LoopRange(0, 32)
           /\ sub_loops[0].cost = 1187
    /\ (loop = GrimThreshold /\ pc \in {"done", "crashed"}
        /\ decls.pim_runindex /\ decls.pim_initsubloop) =>
           /\ pc = "done"
           /\ Len(report) = 1
           /\ report[1].vector
           /\ Shape(report[1].ast) = <<"Operator", "ICmp", <<"ArrayLoad">>, <<"Constant">> >>
           /\ report[1].cost = 173

\* the visit of the threshold loop ended with its two calls inserted
C18_Witness ==
    /\ loop = GrimThreshold
    /\ pc = "done"
    /\ Len(calls) = 2
    /\ report[1].cost = 173

Conversions == {"ZExt", "SExt", "Trunc"}

\* C19 as stated: extraction of a value defined by a widening or truncating
\* conversion of x gives what extraction of x gives, verdict and tree.
C19_ConversionsInvisible ==
    (fn.mode = "extract" /\ fn.done /\ IsInstruction(fn.value)
     /\ fn.value.op \in Conversions) =>
        fn.ast \in extractComputation(fn.value.ops[1], pattern)

\* v with every zero- and sign-extension taken out, at any depth
RECURSIVE StripExt(_)
StripExt(v) ==
    IF ~IsInstruction(v) THEN v
    ELSE IF v.op \in {"ZExt", "SExt"} THEN StripExt(v.ops[1])
    ELSE IF v.op \in ExtractOps
    THEN [v EXCEPT !.ops = <<StripExt(v.ops[1]), StripExt(v.ops[2])>>]
    ELSE v

\* C19 amended: zero- and sign-extensions are invisible to the tree, at the
\* root and below operators: the tree of v has the shape of the tree of v
\* without them; a value defined by a truncation has no tree.
C19_WideningInvisible ==
    (fn.mode = "extract" /\ fn.done) =>
        /\ Shape(fn.ast) \in {Shape(t) : t \in extractComputation(StripExt(fn.value), pattern)}
        /\ (IsInstruction(fn.value) /\ fn.value.op = "Trunc") => fn.ast = NullAST

\* an operator tree was extracted through an extension below the root
C19_Witness ==
    /\ fn.mode = "extract"
    /\ fn.done
    /\ IsInstruction(fn.value)
    /\ fn.value.op = "Add"
    /\ IsInstruction(fn.value.ops[1])
    /\ fn.value.ops[1].op = "ZExt"
    /\ WellFormed(fn.ast)
    /\ fn.ast.left.ast_type = "AST_TYPE_ARRAY"

\* C20: for a value defined by a load, extractComputation returns an
\* array-load leaf exactly when the address is a getelementptr whose
\* trailing index is pattern.first_idx or pattern.second_idx, and returns
\* no tree otherwise, also for an address that is no getelementptr; it
\* never faults.
C20_LoadLeafOrNone ==
    (fn.mode = "extract" /\ fn.done /\ IsLoad(fn.value)) =>
        LET addr == fn.value.ops[1]
            qualifies == /\ IsGEP(addr)
                         /\ getIndexVariable(addr) \in {pattern.first_idx,
                                                        pattern.second_idx}
        IN  /\ fn.ast # Fault
            /\ qualifies => fn.ast = ExtractAST("AST_TYPE_ARRAY", fn.value)
            /\ ~qualifies => fn.ast = NullAST

RunCallsIn(c) == {n \in 1..Len(c) : c[n].fn = "pim_runindex"}

InitCallsIn(c) == {n \in 1..Len(c) : c[n].fn = "pim_initsubloop"}

\* C21: in a visit of an outer loop with child loops, a step that inserts a
\* run-call or redirects a header branch happens only after every child
\* has been scanned and recorded, and only while no init-call has been
\* inserted; no init-call is in place when that step ends.
C21_RewriteOrder ==
    [][(/\ Len(loop.subs) > 0
        /\ \/ succ' # succ
           \/ RunCallsIn(calls') # RunCallsIn(calls))
       => /\ Len(report) = Len(loop.subs)
          /\ \A k \in 0..(Len(loop.subs) - 1) : k \in DOMAIN sub_loops
          /\ InitCallsIn(calls) = {}
          /\ InitCallsIn(calls') = {}]_vars

\* two children were replaced and both init-calls follow both run-calls
C21_Witness ==
    /\ pc = "done"
    /\ Len(loop.subs) = 2
    /\ Len(calls) = 4
    /\ RunCallsIn(calls) = {1, 2}
    /\ InitCallsIn(calls) = {3, 4}
    /\ succ[1] = <<"exit", "exit">>
    /\ succ[2] = <<"exit", "exit">>

\* the record of child k (1-based) says compiled and isEraseSubLoopValid holds
Replaceable(k) ==
    /\ sub_loops[k - 1].compiled
    /\ isEraseSubLoopValid(loop.subs[k])

\* C22: when the visit of an outer loop with children is over, child k has
\* the run-call (k, outer index) in its header and its header branch
\* redirected to the exit exactly when its record is compiled and
\* isEraseSubLoopValid holds; the outer header has exactly one init-call
\* (k, range.start, range.end) per compiled record and none for any other;
\* the outer loop's own header branch keeps its successors.
C22_RewriteDecision ==
    (pc = "done" /\ loop.depth = 1 /\ Len(loop.subs) > 0) =>
        /\ \A k \in 1..Len(loop.subs) :
              /\ Replaceable(k) <=>
                    \E n \in CallsAt(SubId(k - 1)) :
                        calls[n] = RunCall(SubId(k - 1), k - 1, loop.iv)
              /\ Replaceable(k) =>
                    /\ Cardinality(CallsAt(SubId(k - 1))) = 1
                    /\ succ[SubId(k - 1)] = <<"exit", "exit">>
              /\ ~Replaceable(k) =>
                    /\ CallsAt(SubId(k - 1)) = {}
                    /\ Untouched(SubId(k - 1))
              /\ InitCallsFor(k - 1) \subseteq CallsAt(SelfId)
              /\ Cardinality(InitCallsFor(k - 1)) =
                    IF sub_loops[k - 1].compiled THEN 1 ELSE 0
              /\ \A n \in InitCallsFor(k - 1) :
                    calls[n] = InitCall(SelfId, k - 1, sub_loops[k - 1].range.start,
                                        sub_loops[k - 1].range.end)
        /\ CallsAt(SelfId) \subseteq InitCallsIn(calls)
        /\ Untouched(SelfId)

\* the scan of the children is over
ScanDone == pc \in {"rewrite", "init", "done"} /\ loop.depth = 1 /\ Len(loop.subs) > 0

\* C23: once the children of an outer loop are scanned, the registry has a
\* record for every ordinal 0..n-1, child k (in scan order) was examined
\* once and its record is compiled exactly when its detection succeeded,
\* a compiled record carrying its ordinal; the rewrite and init steps
\* change no record.
C23_RegistryAfterScan ==
    /\ [](ScanDone =>
            /\ i = Len(loop.subs)
            /\ Len(report) = Len(loop.subs)
            /\ \A k \in 1..Len(loop.subs) :
                  /\ (k - 1) \in DOMAIN sub_loops
                  /\ sub_loops[k - 1].compiled = report[k].vector
                  /\ report[k].vector =
                        subLoopIsVectorLoop(loop.subs[k], report[k].pattern_in).ret
                  /\ sub_loops[k - 1].compiled => sub_loops[k - 1].sub_loop_index = k - 1)
    /\ [][ScanDone => sub_loops' = sub_loops]_vars

\* several children scanned, the first a vector loop and the last not, and
\* the visit over with a child replaced
C23_Witness ==
    /\ pc = "done"
    /\ Len(loop.subs) > 1
    /\ DOMAIN sub_loops = 0..(Len(loop.subs) - 1)
    /\ sub_loops[0].compiled
    /\ ~sub_loops[Len(loop.subs) - 1].compiled
    /\ RunCallsIn(calls) # {}

\* C24: a visit of a loop whose depth is not 1 inserts no call, redirects no
\* branch and writes no registry record, in any of its states; the loop is
\* analysed only as a child, in the visit of its parent.
C24_DeepLoopUntouched ==
    loop.depth # 1 =>
        /\ calls = <<>>
        /\ succ = InitialSucc(loop)
        /\ sub_loops = <<>>
        /\ report = <<>>
        /\ pc \in {"start", "done"}

\* the visit of a vector loop of depth 2 is over
C24_Witness ==
    /\ loop.depth = 2
    /\ pc = "done"
    /\ subLoopIsVectorLoop(loop, [first_idx |-> I, second_idx |-> NullValue]).ret
    /\ isEraseSubLoopValid(loop)
    /\ decls.pim_runindex
    /\ decls.pim_initsubloop

-----------------------------------------------------------------------------
\* One run of the pass over a function: the pass manager calls runOnLoop on
\* one loop after the other. The locals of runOnLoop start afresh in every
\* call; the file-level map sub_loops is the same object throughout.

\* an outer loop with two vector children
TwoChildOuter ==
    [GrimOuter EXCEPT !.subs = <<MkLoop(J, << <<"VAdd", "AJ">> >>, TRUE, TRUE, FALSE),
                                 MkLoop(J, << <<"VCmp", "AJ">> >>, TRUE, TRUE, FALSE)>>]

\* an outer loop whose only child stores by the outer index
RowOuter ==
    [GrimOuter EXCEPT !.subs = <<MkLoop(J, << <<"VRow", "AI">> >>, TRUE, TRUE, FALSE)>>]

VisitLoops ==
    { GrimOuter, GrimThreshold, TwoChildOuter, RowOuter,
      [MkLoop(J, << <<"VAdd", "AJ">> >>, TRUE, TRUE, FALSE) EXCEPT !.depth = 1],
      MkLoop(J, << <<"VAdd", "AJ">> >>, TRUE, TRUE, FALSE) }

\* runOnLoop has returned and the pass manager calls it on the next loop
NextVisit ==
    /\ fn.mode = "visits"
    /\ pc = "done"
    /\ fn.todo # <<>>
    /\ loop' = Head(fn.todo)
    /\ fn' = [fn EXCEPT !.todo = Tail(@),
                        !.past = Append(@, [loop |-> loop, calls |-> calls,
                                            succ |-> succ, ret |-> ret])]
    /\ pc' = "start"
    /\ pattern' = [first_idx |-> NullValue, second_idx |-> NullValue]
    /\ i' = 0
    /\ idx' = 0
    /\ calls' = <<>>
    /\ succ' = InitialSucc(Head(fn.todo))
    /\ ret' = "none"
    /\ report' = <<>>
    /\ UNCHANGED <<decls, sub_loops, loop_was_interchanged>>

InitVisits ==
    /\ decls = [pim_runindex |-> TRUE, pim_initsubloop |-> TRUE]
    /\ loop \in VisitLoops
    /\ \E todo \in SeqsOf(VisitLoops, MaxVisits - 1) :
           fn = [mode |-> "visits", todo |-> todo, past |-> <<>>]
    /\ pc = "start"
    /\ pattern = [first_idx |-> NullValue, second_idx |-> NullValue]
    /\ i = 0
    /\ idx = 0
    /\ sub_loops = <<>>
    /\ calls = <<>>
    /\ succ = InitialSucc(loop)
    /\ ret = "none"
    /\ report = <<>>
    /\ loop_was_interchanged = FALSE

NextVisits ==
    \/ Enter
    \/ ProcessSelf
    \/ compileSubLoop
    \/ RewriteStep
    \/ insertLoopPIMCalls
    \/ NextVisit

SpecVisits == InitVisits /\ [][NextVisits]_vars

\* C25: the registry is scoped to one visit: when a later visit starts, it
\* holds no record written in an earlier one.
C25_RegistryScopedToVisit ==
    (fn.mode = "visits" /\ fn.past # <<>> /\ pc = "start") => sub_loops = <<>>

\* the record compileSubLoop writes in this visit for child k (1-based),
\* as far as the rewrite and init steps read it
WrittenThisVisit(k) ==
    /\ (k - 1) \in DOMAIN sub_loops
    /\ sub_loops[k - 1].compiled = report[k].vector
    /\ report[k].vector =>
          /\ sub_loops[k - 1].sub_loop_index = k - 1
          /\ sub_loops[k - 1].range = report[k].range
          /\ sub_loops[k - 1].cost = computeCost(report[k].ast)

\* C26: over the visits of one run of the pass, every record the rewrite
\* and init steps of a visit read, those of the ordinals 0..n-1 of its n
\* children, is the one the scan of that same visit wrote, never one left
\* by an earlier visit; the calls the visit inserts are those its own scan
\* decided.
C26_NoStaleRead ==
    (fn.mode = "visits" /\ ScanDone) =>
        /\ Len(report) = Len(loop.subs)
        /\ \A k \in 1..Len(loop.subs) : WrittenThisVisit(k)
        /\ \A n \in 1..Len(calls) :
              /\ calls[n].args[1] \in 0..(Len(loop.subs) - 1)
              /\ report[calls[n].args[1] + 1].vector
              /\ calls[n].fn = "pim_initsubloop" =>
                    /\ calls[n].args[2] = report[calls[n].args[1] + 1].range.start
                    /\ calls[n].args[3] = report[calls[n].args[1] + 1].range.end

\* a later visit is in its rewrite or init step on an outer loop whose
\* child is no vector loop, while the registry holds the compiled records
\* 0 and 1 of an earlier visit's children
C26_Witness ==
    /\ fn.mode = "visits"
    /\ fn.past # <<>>
    /\ \E h \in 1..Len(fn.past) : Len(fn.past[h].loop.subs) = 2
    /\ pc \in {"rewrite", "init", "done"}
    /\ Len(loop.subs) = 1
    /\ ~report[1].vector
    /\ ~sub_loops[0].compiled
    /\ 1 \in DOMAIN sub_loops
    /\ sub_loops[1].compiled

\* the sub-loop indexes the calls of a call sequence carry
IndexesIn(c) == {c[n].args[1] : n \in 1..Len(c)}

\* C28: over the visits of one run of the pass, two different compiled
\* loops never get the same sub-loop index: the calls of one visit carry
\* no index the calls of an earlier visit carry, and within a visit the
\* run-calls of different loops carry different indexes.
C28_IndexUnique ==
    fn.mode = "visits" =>
        /\ \A h \in 1..Len(fn.past) :
              IndexesIn(fn.past[h].calls) \cap IndexesIn(calls) = {}
        /\ \A m, n \in RunCallsIn(calls) :
              calls[m].at # calls[n].at => calls[m].args[1] # calls[n].args[1]

\* C27: when a visit is over, a loop has a run-call in its header only if
\* its header branch was redirected to the exit, in the sub-loop path
\* (also when eraseSubLoop finds no exit block) and in the path of a loop
\* without sub-loops (also when isEraseSubLoopValid is false).
C27_RunCallOnlyIfErased ==
    pc = "done" =>
        \A n \in RunCallsIn(calls) :
            /\ succ[calls[n].at] # InitialSucc(loop)[calls[n].at]
            /\ \A b \in 1..Len(succ[calls[n].at]) : succ[calls[n].at][b] = "exit"

\* child k (1-based) of the visited outer loop has a store, and its canonical
\* induction variable is not the row index of the pattern it was examined
\* under
StoresOffRow(k) ==
    /\ StorePositions(loop.subs[k]) # {}
    /\ getCanonicalInductionVariable(loop.subs[k]) # report[k].pattern_in.first_idx

\* C29: for a sub-loop with at least one store whose canonical induction
\* variable is not the pattern's row index, isLoopInterchangeValid and
\* subLoopIsVectorLoop are never both true: a sub-loop reported as
\* "interchange is required" is recorded compiled=false.
C29_InterchangeExcludesVector ==
    (loop.depth = 1 /\ Len(loop.subs) > 0) =>
        \A k \in 1..Len(report) :
            StoresOffRow(k) =>
                /\ ~(/\ isLoopInterchangeValid(loop.subs[k], report[k].pattern_in)
                     /\ subLoopIsVectorLoop(loop.subs[k], report[k].pattern_in).ret)
                /\ ~(report[k].interchange /\ report[k].vector)
                /\ report[k].interchange =>
                      /\ (k - 1) \in DOMAIN sub_loops
                      /\ ~sub_loops[k - 1].compiled

\* a child with a store was reported as needing the interchange, after a
\* child that was compiled
C29_Witness ==
    /\ pc = "done"
    /\ Len(loop.subs) = 2
    /\ Len(report) = 2
    /\ report[1].vector
    /\ StoresOffRow(2)
    /\ report[2].interchange
    /\ ~sub_loops[1].compiled

\* C30: the value runOnLoop returns is true exactly when the invocation
\* inserted a call or redirected a branch: false for a loop of depth other
\* than 1 and for an outer loop none of whose children compiled, true for
\* a handled loop without sub-loops.
C30_ReturnTruthful ==
    pc = "done" =>
        /\ ret \in {"true", "false"}
        /\ ret = "true" <=> (calls # <<>> \/ succ # InitialSucc(loop))

====
